---- MODULE Spec2Model ----
(***************************************************************************)
(* InMemoryExecutionDatabase of nautilus_trader/execution/database.pyx:    *)
(* the three primary caches, the strategy set and the twelve indices, with *)
(* one action per command and one operator per query.                      *)
(*                                                                         *)
(* Identifiers are small integers.  A Python dict is a function whose      *)
(* DOMAIN is its key set; a Python set is a set.  An Order, Position,      *)
(* Account or TradingStrategy object is a record of the attributes the     *)
(* database reads; the None reference of each type is the record whose     *)
(* identifier is None.  The predicates is_working(), is_completed() and    *)
(* is_closed() belong to the object handed to the update command, so they  *)
(* are inputs of that command.                                             *)
(***************************************************************************)
EXTENDS Integers, FiniteSets, Sequences, TLC

\* ---- bounds of the model
NumOrders == 2
NumPositions == 2
NumStrategies == 2
NumAccounts == 1

\* ---- values
None == -1
NULL == 0

ClientOrderIds == 1..NumOrders
PositionIds == 1..NumPositions
StrategyIds == 1..NumStrategies
AccountIds == 1..NumAccounts

NoOrder == [cl_ord_id |-> None]
NoPosition == [id |-> None, from_order |-> None]
NoAccount == [id |-> None]
NoStrategy == [id |-> None]

\* the objects with identifiers in the given sets
Orders(O) == [cl_ord_id : O]
Positions(P, O) == [id : P, from_order : O]
Accounts(A) == [id : A]
Strategies(S) == [id : S]

VARIABLES
    cached_accounts,
    cached_orders,
    cached_positions,
    strategies,
    index_order_position,
    index_order_strategy,
    index_position_strategy,
    index_position_orders,
    index_strategy_orders,
    index_strategy_positions,
    index_orders,
    index_orders_working,
    index_orders_completed,
    index_positions,
    index_positions_open,
    index_positions_closed,
    call,
    raised,
    ever,
    held,
    subscribed_instruments,
    timers,
    executor,
    callbacks,
    hash_slot

caches == <<cached_accounts, cached_orders, cached_positions>>

indices == <<strategies, index_order_position, index_order_strategy,
             index_position_strategy, index_position_orders,
             index_strategy_orders, index_strategy_positions,
             index_orders, index_orders_working, index_orders_completed,
             index_positions, index_positions_open, index_positions_closed>>

store == <<caches, indices>>

\* the state of the BinanceDataClient
client == <<subscribed_instruments, timers, executor, callbacks, hash_slot>>

vars == <<store, call, raised, ever, held, client>>

\* ---- dict helpers
EmptyDict == [k \in {} |-> None]

Put(d, k, v) == [x \in DOMAIN d \cup {k} |-> IF x = k THEN v ELSE d[x]]

Del(d, k) == [x \in DOMAIN d \ {k} |-> d[x]]


Get(d, k) == IF k \in DOMAIN d THEN d[k] ELSE None

\* ---- QUERIES (a strategy_id of None is the absent filter)
load_account(account_id) ==
    IF account_id \in DOMAIN cached_accounts THEN cached_accounts[account_id] ELSE NoAccount

load_order(cl_ord_id) ==
    IF cl_ord_id \in DOMAIN cached_orders THEN cached_orders[cl_ord_id] ELSE NoOrder

load_position(position_id) ==
    IF position_id \in DOMAIN cached_positions THEN cached_positions[position_id] ELSE NoPosition

get_account(account_id) ==
    IF account_id \in DOMAIN cached_accounts THEN cached_accounts[account_id] ELSE NoAccount

get_order(cl_ord_id) ==
    IF cl_ord_id \in DOMAIN cached_orders THEN cached_orders[cl_ord_id] ELSE NoOrder

get_position_open_only(position_id) ==
    IF position_id \in DOMAIN cached_positions /\ position_id \in index_positions_open
    THEN cached_positions[position_id]
    ELSE NoPosition

get_position(position_id) ==
    IF position_id \in DOMAIN cached_positions THEN cached_positions[position_id] ELSE NoPosition

get_strategy_ids == strategies

get_order_ids(strategy_id) ==
    IF strategy_id = None THEN index_orders
    ELSE IF strategy_id \notin DOMAIN index_strategy_orders THEN {}
    ELSE index_orders \cap index_strategy_orders[strategy_id]

get_order_working_ids_unfiltered(strategy_id) ==
    index_orders_working

get_order_working_ids(strategy_id) ==
    IF strategy_id = None THEN index_orders_working
    ELSE IF strategy_id \notin DOMAIN index_strategy_orders THEN {}
    ELSE index_orders_working \cap index_strategy_orders[strategy_id]

get_order_completed_ids(strategy_id) ==
    IF strategy_id = None THEN index_orders_completed
    ELSE IF strategy_id \notin DOMAIN index_strategy_orders THEN {}
    ELSE index_orders_completed \cap index_strategy_orders[strategy_id]

get_position_ids(strategy_id) ==
    IF strategy_id = None THEN index_positions
    ELSE IF strategy_id \notin DOMAIN index_strategy_positions THEN {}
    ELSE index_positions \cap index_strategy_positions[strategy_id]

get_position_open_ids(strategy_id) ==
    IF strategy_id = None THEN index_positions_open
    ELSE IF strategy_id \notin DOMAIN index_strategy_positions THEN {}
    ELSE index_positions_open \cap index_strategy_positions[strategy_id]

get_position_closed_ids(strategy_id) ==
    IF strategy_id = None THEN index_positions_closed
    ELSE IF strategy_id \notin DOMAIN index_strategy_positions THEN {}
    ELSE index_positions_closed \cap index_strategy_positions[strategy_id]

get_strategy_for_order(cl_ord_id) == Get(index_order_strategy, cl_ord_id)

get_strategy_for_position(position_id) == Get(index_position_strategy, position_id)

get_position_id(cl_ord_id) == Get(index_order_position, cl_ord_id)

order_exists(cl_ord_id) == cl_ord_id \in index_orders

is_order_working(cl_ord_id) == cl_ord_id \in index_orders_working

is_order_completed(cl_ord_id) == cl_ord_id \in index_orders_completed

position_exists(position_id) == position_id \in index_positions

position_exists_for_order_indexed(cl_ord_id) ==
    Get(index_order_position, cl_ord_id) # None

position_exists_for_order(cl_ord_id) ==
    IF Get(index_order_position, cl_ord_id) = None THEN FALSE
    ELSE Get(index_order_position, cl_ord_id) \in index_positions

position_indexed_for_order(cl_ord_id) == cl_ord_id \in DOMAIN index_order_position

is_position_open(position_id) == position_id \in index_positions_open

is_position_closed(position_id) == position_id \in index_positions_closed

orders_total_count(strategy_id) == Cardinality(get_order_ids(strategy_id))

orders_working_count_unfiltered(strategy_id) == Cardinality(index_orders_working)

orders_working_count(strategy_id) == Cardinality(get_order_working_ids(strategy_id))

orders_completed_count(strategy_id) == Cardinality(get_order_completed_ids(strategy_id))

positions_total_count(strategy_id) == Cardinality(get_position_ids(strategy_id))

positions_open_count(strategy_id) == Cardinality(get_position_open_ids(strategy_id))

positions_closed_count(strategy_id) == Cardinality(get_position_closed_ids(strategy_id))

\* ---- dict-returning queries.  Each builds its result in one comprehension
\* inside try/except KeyError and returns the local it was to be assigned to:
\* when an id is missing from the cache the comprehension fails as a whole,
\* the local was never assigned, and the value returned is None (NoDict).
NoDict == [k \in {None} |-> None]

dict_comprehension(ids, cache) ==
    IF ids \subseteq DOMAIN cache THEN [k \in ids |-> cache[k]] ELSE NoDict

get_orders(strategy_id) == dict_comprehension(get_order_ids(strategy_id), cached_orders)

get_orders_working(strategy_id) ==
    dict_comprehension(get_order_working_ids(strategy_id), cached_orders)

get_orders_completed(strategy_id) ==
    dict_comprehension(get_order_completed_ids(strategy_id), cached_orders)

get_positions(strategy_id) ==
    dict_comprehension(get_position_ids(strategy_id), cached_positions)

get_positions_open(strategy_id) ==
    dict_comprehension(get_position_open_ids(strategy_id), cached_positions)

get_positions_closed(strategy_id) ==
    dict_comprehension(get_position_closed_ids(strategy_id), cached_positions)

\* ---- COMMANDS
\* call is the operation last invoked, raised the check that rejected it or the
\* exception it ended with ("none" when it returned normally).  held is the
\* collection a caller received from an id-set query and still holds; no
\* command touches it.  ever is a history variable no
\* command reads: when ever.tracking is set it accumulates the identifiers
\* accepted by add_account / add_order / add_position since construction.
remember_account(account_id) ==
    IF ever.tracking THEN [ever EXCEPT !.accounts = @ \cup {account_id}] ELSE ever

remember_order(cl_ord_id) ==
    IF ever.tracking THEN [ever EXCEPT !.orders = @ \cup {cl_ord_id}] ELSE ever

remember_position(position_id) ==
    IF ever.tracking THEN [ever EXCEPT !.positions = @ \cup {position_id}] ELSE ever

\* Condition.not_in checks of add_order
add_order_lax(cl_ord_id) ==
    cl_ord_id \in DOMAIN index_order_position

add_order_no_position_check(cl_ord_id) ==
    \/ cl_ord_id \in DOMAIN cached_orders
    \/ cl_ord_id \in index_orders
    \/ cl_ord_id \in DOMAIN index_order_strategy

add_order_rejects_updated(cl_ord_id) ==
    \/ cl_ord_id \in DOMAIN cached_orders
    \/ cl_ord_id \in index_orders
    \/ cl_ord_id \in DOMAIN index_order_position
    \/ cl_ord_id \in DOMAIN index_order_strategy
    \/ cl_ord_id \in index_orders_working
    \/ cl_ord_id \in index_orders_completed

add_order_duplicate(cl_ord_id) ==
    \/ cl_ord_id \in DOMAIN cached_orders
    \/ cl_ord_id \in index_orders
    \/ cl_ord_id \in DOMAIN index_order_position
    \/ cl_ord_id \in DOMAIN index_order_strategy

add_position_checks_closed(position_id) ==
    position_id \in index_positions_closed

\* Condition.not_in checks of add_position
add_position_duplicate(position_id) ==
    \/ position_id \in DOMAIN cached_positions
    \/ position_id \in index_positions
    \/ position_id \in index_positions_open

is_null_never(position_id) == FALSE

is_null(position_id) == position_id = NULL

index_order_position_skip(cl_ord_id, position_id) == index_order_position

index_order_position_overwrite(cl_ord_id, position_id) ==
    Put(index_order_position, cl_ord_id, position_id)

\* Index: ClientOrderId -> PositionId
index_order_position_set(cl_ord_id, position_id) ==
    IF cl_ord_id \notin DOMAIN index_order_position
    THEN Put(index_order_position, cl_ord_id, position_id)
    ELSE index_order_position

index_position_strategy_skip(position_id, strategy_id) == index_position_strategy

index_position_strategy_overwrite(position_id, strategy_id) ==
    Put(index_position_strategy, position_id, strategy_id)

\* Index: PositionId -> StrategyId
index_position_strategy_set(position_id, strategy_id) ==
    IF position_id \notin DOMAIN index_position_strategy
    THEN Put(index_position_strategy, position_id, strategy_id)
    ELSE index_position_strategy

index_position_orders_replace(position_id, cl_ord_id) ==
    Put(index_position_orders, position_id, {cl_ord_id})

\* Index: PositionId -> Set[ClientOrderId]
index_position_orders_add(position_id, cl_ord_id) ==
    IF position_id \notin DOMAIN index_position_orders
    THEN Put(index_position_orders, position_id, {cl_ord_id})
    ELSE Put(index_position_orders, position_id,
             index_position_orders[position_id] \cup {cl_ord_id})

\* Index: StrategyId -> Set[PositionId]
index_strategy_positions_add(strategy_id, position_id) ==
    IF strategy_id \notin DOMAIN index_strategy_positions
    THEN Put(index_strategy_positions, strategy_id, {position_id})
    ELSE Put(index_strategy_positions, strategy_id,
             index_strategy_positions[strategy_id] \cup {position_id})

index_strategy_orders_replace(strategy_id, cl_ord_id) ==
    Put(index_strategy_orders, strategy_id, {cl_ord_id})

\* Index: StrategyId -> Set[ClientOrderId]
index_strategy_orders_add(strategy_id, cl_ord_id) ==
    IF strategy_id \notin DOMAIN index_strategy_orders
    THEN Put(index_strategy_orders, strategy_id, {cl_ord_id})
    ELSE Put(index_strategy_orders, strategy_id,
             index_strategy_orders[strategy_id] \cup {cl_ord_id})

\* All three arguments are non-None at both call sites of the model.
index_position_id(position_id, cl_ord_id, strategy_id) ==
    /\ index_order_position' = index_order_position_set(cl_ord_id, position_id)
    /\ index_position_strategy' = index_position_strategy_set(position_id, strategy_id)
    /\ index_position_orders' = index_position_orders_add(position_id, cl_ord_id)
    /\ index_strategy_positions' = index_strategy_positions_add(strategy_id, position_id)

add_account(account) ==
    /\ call' = "add_account"
    /\ UNCHANGED <<held, client>>
    /\ IF account = NoAccount
       THEN /\ raised' = "not_none"
            /\ UNCHANGED <<store, ever>>
       ELSE IF account.id \in DOMAIN cached_accounts
       THEN /\ raised' = "not_in"
            /\ UNCHANGED <<store, ever>>
       ELSE /\ raised' = "none"
            /\ cached_accounts' = Put(cached_accounts, account.id, account)
            /\ ever' = remember_account(account.id)
            /\ UNCHANGED <<cached_orders, cached_positions, indices>>

add_order(order, position_id, strategy_id) ==
    /\ call' = "add_order"
    /\ UNCHANGED <<held, client>>
    /\ IF order = NoOrder \/ position_id = None \/ strategy_id = None
       THEN /\ raised' = "not_none"
            /\ UNCHANGED <<store, ever>>
       ELSE IF add_order_duplicate(order.cl_ord_id)
       THEN /\ raised' = "not_in"
            /\ UNCHANGED <<store, ever>>
       ELSE /\ raised' = "none"
            /\ cached_orders' = Put(cached_orders, order.cl_ord_id, order)
            /\ index_orders' = index_orders \cup {order.cl_ord_id}
            /\ index_order_strategy' = Put(index_order_strategy, order.cl_ord_id, strategy_id)
            /\ index_strategy_orders' = index_strategy_orders_add(strategy_id, order.cl_ord_id)
            /\ IF is_null(position_id)
               THEN UNCHANGED <<index_order_position, index_position_strategy,
                                index_position_orders, index_strategy_positions>>
               ELSE index_position_id(position_id, order.cl_ord_id, strategy_id)
            /\ ever' = remember_order(order.cl_ord_id)
            /\ UNCHANGED <<cached_accounts, cached_positions, strategies,
                           index_orders_working, index_orders_completed,
                           index_positions, index_positions_open, index_positions_closed>>

add_position(position, strategy_id) ==
    /\ call' = "add_position"
    /\ UNCHANGED <<held, client>>
    /\ IF position = NoPosition \/ strategy_id = None
       THEN /\ raised' = "not_none"
            /\ UNCHANGED <<store, ever>>
       ELSE IF add_position_duplicate(position.id)
       THEN /\ raised' = "not_in"
            /\ UNCHANGED <<store, ever>>
       ELSE IF position.from_order = None
       THEN \* the inserts of lines 467-470 are done when index_position_id raises
            /\ raised' = "not_none"
            /\ cached_positions' = Put(cached_positions, position.id, position)
            /\ index_positions' = index_positions \cup {position.id}
            /\ index_positions_open' = index_positions_open \cup {position.id}
            /\ ever' = remember_position(position.id)
            /\ UNCHANGED <<cached_accounts, cached_orders, strategies,
                           index_order_position, index_order_strategy,
                           index_position_strategy, index_position_orders,
                           index_strategy_orders, index_strategy_positions,
                           index_orders, index_orders_working, index_orders_completed,
                           index_positions_closed>>
       ELSE /\ raised' = "none"
            /\ cached_positions' = Put(cached_positions, position.id, position)
            /\ index_positions' = index_positions \cup {position.id}
            /\ index_positions_open' = index_positions_open \cup {position.id}
            /\ index_position_id(position.id, position.from_order, strategy_id)
            /\ ever' = remember_position(position.id)
            /\ UNCHANGED <<cached_accounts, cached_orders, strategies,
                           index_order_strategy, index_strategy_orders,
                           index_orders, index_orders_working, index_orders_completed,
                           index_positions_closed>>

update_account(account) ==
    /\ call' = "update_account"
    /\ UNCHANGED <<held, client>>
    /\ raised' = "none"
    /\ UNCHANGED <<store, ever>>

update_strategy(strategy) ==
    /\ call' = "update_strategy"
    /\ UNCHANGED <<held, client>>
    /\ IF strategy = NoStrategy
       THEN /\ raised' = "not_none"
            /\ UNCHANGED <<store, ever>>
       ELSE /\ raised' = "none"
            /\ strategies' = strategies \cup {strategy.id}
            /\ UNCHANGED <<caches, index_order_position, index_order_strategy,
                           index_position_strategy, index_position_orders,
                           index_strategy_orders, index_strategy_positions,
                           index_orders, index_orders_working, index_orders_completed,
                           index_positions, index_positions_open, index_positions_closed,
                           ever>>

update_order_no_discard(order, is_working, is_completed) ==
    /\ call' = "update_order"
    /\ UNCHANGED <<held, client>>
    /\ IF order = NoOrder
       THEN /\ raised' = "not_none"
            /\ UNCHANGED <<store, ever>>
       ELSE /\ raised' = "none"
            /\ IF is_working
               THEN /\ index_orders_working' = index_orders_working \cup {order.cl_ord_id}
                    /\ index_orders_completed' = index_orders_completed
               ELSE IF is_completed
               THEN /\ index_orders_completed' = index_orders_completed \cup {order.cl_ord_id}
                    /\ index_orders_working' = index_orders_working
               ELSE UNCHANGED <<index_orders_working, index_orders_completed>>
            /\ UNCHANGED <<caches, strategies, index_order_position, index_order_strategy,
                           index_position_strategy, index_position_orders,
                           index_strategy_orders, index_strategy_positions,
                           index_orders, index_positions, index_positions_open,
                           index_positions_closed, ever>>

update_order_completed_first(order, is_working, is_completed) ==
    /\ call' = "update_order"
    /\ UNCHANGED <<held, client>>
    /\ IF order = NoOrder
       THEN /\ raised' = "not_none"
            /\ UNCHANGED <<store, ever>>
       ELSE /\ raised' = "none"
            /\ IF is_completed
               THEN /\ index_orders_completed' = index_orders_completed \cup {order.cl_ord_id}
                    /\ index_orders_working' = index_orders_working \ {order.cl_ord_id}
               ELSE IF is_working
               THEN /\ index_orders_working' = index_orders_working \cup {order.cl_ord_id}
                    /\ index_orders_completed' = index_orders_completed \ {order.cl_ord_id}
               ELSE UNCHANGED <<index_orders_working, index_orders_completed>>
            /\ UNCHANGED <<caches, strategies, index_order_position, index_order_strategy,
                           index_position_strategy, index_position_orders,
                           index_strategy_orders, index_strategy_positions,
                           index_orders, index_positions, index_positions_open,
                           index_positions_closed, ever>>

update_order(order, is_working, is_completed) ==
    /\ call' = "update_order"
    /\ UNCHANGED <<held, client>>
    /\ IF order = NoOrder
       THEN /\ raised' = "not_none"
            /\ UNCHANGED <<store, ever>>
       ELSE /\ raised' = "none"
            /\ IF is_working
               THEN /\ index_orders_working' = index_orders_working \cup {order.cl_ord_id}
                    /\ index_orders_completed' = index_orders_completed \ {order.cl_ord_id}
               ELSE IF is_completed
               THEN /\ index_orders_completed' = index_orders_completed \cup {order.cl_ord_id}
                    /\ index_orders_working' = index_orders_working \ {order.cl_ord_id}
               ELSE UNCHANGED <<index_orders_working, index_orders_completed>>
            /\ UNCHANGED <<caches, strategies, index_order_position, index_order_strategy,
                           index_position_strategy, index_position_orders,
                           index_strategy_orders, index_strategy_positions,
                           index_orders, index_positions, index_positions_open,
                           index_positions_closed, ever>>

update_position_no_discard(position, is_closed) ==
    /\ call' = "update_position"
    /\ UNCHANGED <<held, client>>
    /\ IF position = NoPosition
       THEN /\ raised' = "not_none"
            /\ UNCHANGED <<store, ever>>
       ELSE /\ raised' = "none"
            /\ IF is_closed
               THEN /\ index_positions_closed' = index_positions_closed \cup {position.id}
                    /\ index_positions_open' = index_positions_open
               ELSE UNCHANGED <<index_positions_closed, index_positions_open>>
            /\ UNCHANGED <<caches, strategies, index_order_position, index_order_strategy,
                           index_position_strategy, index_position_orders,
                           index_strategy_orders, index_strategy_positions,
                           index_orders, index_orders_working, index_orders_completed,
                           index_positions, ever>>

update_position_reopens(position, is_closed) ==
    /\ call' = "update_position"
    /\ UNCHANGED <<held, client>>
    /\ IF position = NoPosition
       THEN /\ raised' = "not_none"
            /\ UNCHANGED <<store, ever>>
       ELSE /\ raised' = "none"
            /\ IF is_closed
               THEN /\ index_positions_closed' = index_positions_closed \cup {position.id}
                    /\ index_positions_open' = index_positions_open \ {position.id}
               ELSE /\ index_positions_open' = index_positions_open \cup {position.id}
                    /\ index_positions_closed' = index_positions_closed \ {position.id}
            /\ UNCHANGED <<caches, strategies, index_order_position, index_order_strategy,
                           index_position_strategy, index_position_orders,
                           index_strategy_orders, index_strategy_positions,
                           index_orders, index_orders_working, index_orders_completed,
                           index_positions, ever>>

update_position(position, is_closed) ==
    /\ call' = "update_position"
    /\ UNCHANGED <<held, client>>
    /\ IF position = NoPosition
       THEN /\ raised' = "not_none"
            /\ UNCHANGED <<store, ever>>
       ELSE /\ raised' = "none"
            /\ IF is_closed
               THEN /\ index_positions_closed' = index_positions_closed \cup {position.id}
                    /\ index_positions_open' = index_positions_open \ {position.id}
               ELSE UNCHANGED <<index_positions_closed, index_positions_open>>
            /\ UNCHANGED <<caches, strategies, index_order_position, index_order_strategy,
                           index_position_strategy, index_position_orders,
                           index_strategy_orders, index_strategy_positions,
                           index_orders, index_orders_working, index_orders_completed,
                           index_positions, ever>>

load_strategy(strategy) ==
    /\ call' = "load_strategy"
    /\ UNCHANGED <<held, client>>
    /\ raised' = IF strategy = NoStrategy THEN "not_none" ELSE "none"
    /\ UNCHANGED <<store, ever>>

delete_strategy_orders_kept(strategy_id) == index_strategy_orders

\* if strategy.id in self._index_strategy_orders: del ...
delete_strategy_orders(strategy_id) ==
    IF strategy_id \in DOMAIN index_strategy_orders
    THEN Del(index_strategy_orders, strategy_id)
    ELSE index_strategy_orders

\* if strategy.id in self._index_strategy_positions: del ...
delete_strategy_positions(strategy_id) ==
    IF strategy_id \in DOMAIN index_strategy_positions
    THEN Del(index_strategy_positions, strategy_id)
    ELSE index_strategy_positions

delete_strategy_unchecked(strategy) ==
    /\ call' = "delete_strategy"
    /\ UNCHANGED <<held, client>>
    /\ IF strategy = NoStrategy
       THEN /\ raised' = "not_none"
            /\ UNCHANGED <<store, ever>>
       ELSE /\ raised' = "none"
            /\ strategies' = strategies \ {strategy.id}
            /\ index_strategy_orders' = delete_strategy_orders(strategy.id)
            /\ index_strategy_positions' = delete_strategy_positions(strategy.id)
            /\ UNCHANGED <<caches, index_order_position, index_order_strategy,
                           index_position_strategy, index_position_orders,
                           index_orders, index_orders_working, index_orders_completed,
                           index_positions, index_positions_open, index_positions_closed,
                           ever>>

delete_strategy(strategy) ==
    /\ call' = "delete_strategy"
    /\ UNCHANGED <<held, client>>
    /\ IF strategy = NoStrategy
       THEN /\ raised' = "not_none"
            /\ UNCHANGED <<store, ever>>
       ELSE IF strategy.id \notin strategies
       THEN /\ raised' = "is_in"
            /\ UNCHANGED <<store, ever>>
       ELSE /\ raised' = "none"
            /\ strategies' = strategies \ {strategy.id}
            /\ index_strategy_orders' = delete_strategy_orders(strategy.id)
            /\ index_strategy_positions' = delete_strategy_positions(strategy.id)
            /\ UNCHANGED <<caches, index_order_position, index_order_strategy,
                           index_position_strategy, index_position_orders,
                           index_orders, index_orders_working, index_orders_completed,
                           index_positions, index_positions_open, index_positions_closed,
                           ever>>

_reset_keeps_orders ==
    /\ cached_accounts' = EmptyDict
    /\ cached_orders' = cached_orders
    /\ cached_positions' = EmptyDict

\* ExecutionDatabase._reset
_reset ==
    /\ cached_accounts' = EmptyDict
    /\ cached_orders' = EmptyDict
    /\ cached_positions' = EmptyDict

reset ==
    /\ call' = "reset"
    /\ UNCHANGED <<held, client>>
    /\ raised' = "none"
    /\ strategies' = {}
    /\ index_order_position' = EmptyDict
    /\ index_order_strategy' = EmptyDict
    /\ index_position_strategy' = EmptyDict
    /\ index_position_orders' = EmptyDict
    /\ index_strategy_orders' = EmptyDict
    /\ index_strategy_positions' = EmptyDict
    /\ index_orders' = {}
    /\ index_orders_working' = {}
    /\ index_orders_completed' = {}
    /\ index_positions' = {}
    /\ index_positions_open' = {}
    /\ index_positions_closed' = {}
    /\ _reset
    /\ UNCHANGED ever

flush_clears ==
    /\ call' = "flush"
    /\ UNCHANGED <<held, client>>
    /\ raised' = "none"
    /\ _reset
    /\ UNCHANGED <<indices, ever>>

flush ==
    /\ call' = "flush"
    /\ UNCHANGED <<held, client>>
    /\ raised' = "none"
    /\ UNCHANGED <<store, ever>>

\* the warnings check_residuals logs: the ids of the working orders and of the
\* open positions it iterates over before it returns or fails
check_residuals_warnings ==
    [orders |-> IF get_orders_working(None) = NoDict THEN {}
                ELSE DOMAIN get_orders_working(None),
     positions |-> IF get_orders_working(None) = NoDict \/ get_positions_open(None) = NoDict
                   THEN {}
                   ELSE DOMAIN get_positions_open(None)]

\* ExecutionDatabase.check_residuals: .values() of a None result raises
check_residuals ==
    /\ call' = "check_residuals"
    /\ UNCHANGED <<held, client>>
    /\ raised' = IF get_orders_working(None) = NoDict \/ get_positions_open(None) = NoDict
                 THEN "attribute_error"
                 ELSE "none"
    /\ UNCHANGED <<store, ever>>

\* a caller that holds no query result yet
NothingHeld == [alias |-> "fresh", value |-> {}]

\* ---- QUERIES as operations.  A query changes nothing in the store; what it
\* leaves behind is its result, and an id-set result is an object the caller
\* keeps (held).  alias names the store's set the object is ("fresh" for a new
\* set of its own), value its elements when it was returned.
IdSetQueries ==
    {"get_strategy_ids", "get_order_ids", "get_order_working_ids", "get_order_completed_ids",
     "get_position_ids", "get_position_open_ids", "get_position_closed_ids"}

FilterQueries ==
    {"get_orders", "get_orders_working", "get_orders_completed",
     "get_positions", "get_positions_open", "get_positions_closed",
     "orders_total_count", "orders_working_count", "orders_completed_count",
     "positions_total_count", "positions_open_count", "positions_closed_count"}

KeyQueries ==
    {"get_account", "get_strategy_for_order", "get_strategy_for_position", "get_order",
     "get_position", "get_position_id", "order_exists", "is_order_working",
     "is_order_completed", "position_exists", "position_exists_for_order",
     "position_indexed_for_order", "is_position_open", "is_position_closed"}

\* the store's set of the given attribute name
base_set(name) ==
    CASE name = "strategies" -> strategies
      [] name = "index_orders" -> index_orders
      [] name = "index_orders_working" -> index_orders_working
      [] name = "index_orders_completed" -> index_orders_completed
      [] name = "index_positions" -> index_positions
      [] name = "index_positions_open" -> index_positions_open
      [] name = "index_positions_closed" -> index_positions_closed

\* the set an id-set query copies when it is given no filter
id_set_base(query) ==
    CASE query = "get_strategy_ids" -> "strategies"
      [] query = "get_order_ids" -> "index_orders"
      [] query = "get_order_working_ids" -> "index_orders_working"
      [] query = "get_order_completed_ids" -> "index_orders_completed"
      [] query = "get_position_ids" -> "index_positions"
      [] query = "get_position_open_ids" -> "index_positions_open"
      [] query = "get_position_closed_ids" -> "index_positions_closed"

id_set_value(query, strategy_id) ==
    CASE query = "get_strategy_ids" -> get_strategy_ids
      [] query = "get_order_ids" -> get_order_ids(strategy_id)
      [] query = "get_order_working_ids" -> get_order_working_ids(strategy_id)
      [] query = "get_order_completed_ids" -> get_order_completed_ids(strategy_id)
      [] query = "get_position_ids" -> get_position_ids(strategy_id)
      [] query = "get_position_open_ids" -> get_position_open_ids(strategy_id)
      [] query = "get_position_closed_ids" -> get_position_closed_ids(strategy_id)

set_alias(name) == [alias |-> name, value |-> base_set(name)]

\* set.copy(): a new set with the elements of the store's set
set_copy(name) == [alias |-> "fresh", value |-> base_set(name)]

\* the object an id-set query returns: the copy of the base set without a
\* filter, else set() or the new set built by set.intersection
id_set_result(query, strategy_id) ==
    IF query = "get_strategy_ids" \/ strategy_id = None
    THEN set_copy(id_set_base(query))
    ELSE [alias |-> "fresh", value |-> id_set_value(query, strategy_id)]

id_set_query(query, strategy_id) ==
    /\ call' = query
    /\ raised' = "none"
    /\ held' = id_set_result(query, strategy_id)
    /\ UNCHANGED <<store, ever, client>>

\* the elements of the collection the caller holds, as the caller sees them now
held_value == IF held.alias = "fresh" THEN held.value ELSE base_set(held.alias)

\* the dict-returning and count queries, with their optional strategy filter
filter_query(query, strategy_id) ==
    /\ call' = query
    /\ raised' = "none"
    /\ UNCHANGED <<store, ever, held, client>>

key_query_pops(query, id) ==
    /\ call' = query
    /\ raised' = IF id = None THEN "not_none" ELSE "none"
    /\ index_order_position' = IF query = "get_position_id" /\ id # None
                               THEN Del(index_order_position, id)
                               ELSE index_order_position
    /\ UNCHANGED <<caches, strategies, index_order_strategy, index_position_strategy,
                   index_position_orders, index_strategy_orders, index_strategy_positions,
                   index_orders, index_orders_working, index_orders_completed,
                   index_positions, index_positions_open, index_positions_closed,
                   ever, held, client>>

\* the lookups and predicates on one identifier: Condition.not_none, then a
\* dict.get or a membership test
key_query(query, id) ==
    /\ call' = query
    /\ raised' = IF id = None THEN "not_none" ELSE "none"
    /\ UNCHANGED <<store, ever, held, client>>

\* ExecutionDatabase.get_symbol_position_counts: counts into a local dict
get_symbol_position_counts ==
    /\ call' = "get_symbol_position_counts"
    /\ raised' = "none"
    /\ UNCHANGED <<store, ever, held, client>>

\* the caller adds id to the collection it holds, or removes it when present:
\* the change lands in the object held, which is one of the store's sets
\* only if a query returned that set itself
toggled(set, id) == IF id \in set THEN set \ {id} ELSE set \cup {id}

caller_mutates(id) ==
    /\ call' = "caller_mutates"
    /\ raised' = "none"
    /\ held' = IF held.alias = "fresh" THEN [held EXCEPT !.value = toggled(@, id)] ELSE held
    /\ strategies' = IF held.alias = "strategies" THEN toggled(strategies, id) ELSE strategies
    /\ index_orders' =
           IF held.alias = "index_orders" THEN toggled(index_orders, id) ELSE index_orders
    /\ index_orders_working' =
           IF held.alias = "index_orders_working" THEN toggled(index_orders_working, id)
           ELSE index_orders_working
    /\ index_orders_completed' =
           IF held.alias = "index_orders_completed" THEN toggled(index_orders_completed, id)
           ELSE index_orders_completed
    /\ index_positions' =
           IF held.alias = "index_positions" THEN toggled(index_positions, id)
           ELSE index_positions
    /\ index_positions_open' =
           IF held.alias = "index_positions_open" THEN toggled(index_positions_open, id)
           ELSE index_positions_open
    /\ index_positions_closed' =
           IF held.alias = "index_positions_closed" THEN toggled(index_positions_closed, id)
           ELSE index_positions_closed
    /\ UNCHANGED <<caches, index_order_position, index_order_strategy,
                   index_position_strategy, index_position_orders,
                   index_strategy_orders, index_strategy_positions, ever, client>>

\* ======================================================================
\* BinanceDataClient: the subscribed instruments and their hourly update.
\*
\* subscribed_instruments is the content of the set object that
\* self._subscribed_instruments refers to; timers counts the pending
\* call_later handles of _subscribed_instruments_update; executor holds the
\* runs of _subscribed_instruments_load_and_send on the executor threads;
\* callbacks is the queue of _send_instrument callbacks that
\* call_soon_threadsafe put on the event loop.  hash_slot is the slot of
\* each symbol in the hash table of a set, which the iteration order
\* follows; it depends on the hash seed of the process.

\* ---- bounds of the client model
NumSymbols == 2
MaxPending == 2
MaxCallbacks == 2

Symbols == 1..NumSymbols

HashSlots == {f \in [Symbols -> Symbols] : \A a, b \in Symbols : f[a] = f[b] => a = b}

Remove(seq, i) == SubSeq(seq, 1, i - 1) \o SubSeq(seq, i + 1, Len(seq))

\* a run that is in load_all(), before its loop
Loading ==
    [pc |-> "load_all", live |-> TRUE, object |-> {}, start |-> {}, len |-> 0,
     pos |-> 1, sent |-> {}]

\* the content of the set object a run iterates: the object the client
\* still refers to, or the one it referred to before reset() replaced it
iterated(task) == IF task.live THEN subscribed_instruments ELSE task.object

\* the occupied slots the iterator of a run has not passed yet
slots_left(task) == {hash_slot[symbol] : symbol \in iterated(task)} \cap task.pos..NumSymbols

first_slot(task) == CHOOSE k \in slots_left(task) : \A j \in slots_left(task) : k <= j

symbol_at(k) == CHOOSE symbol \in Symbols : hash_slot[symbol] = k

\* the updates that are scheduled or running
pending == timers + Len(executor)

\* __init__: an empty set and the first call_later
InitClient ==
    /\ subscribed_instruments = {}
    /\ timers = 1
    /\ executor = <<>>
    /\ callbacks = <<>>

\* reset(): a new set object and one more call_later; a run that iterates
\* keeps the old object
BinanceDataClient_reset ==
    /\ pending < MaxPending
    /\ call' = "BinanceDataClient.reset"
    /\ raised' = "none"
    /\ subscribed_instruments' = {}
    /\ executor' = [i \in DOMAIN executor |->
                       IF executor[i].pc = "for" /\ executor[i].live
                       THEN [executor[i] EXCEPT !.live = FALSE,
                                                !.object = subscribed_instruments]
                       ELSE executor[i]]
    /\ timers' = timers + 1
    /\ UNCHANGED <<store, ever, held, callbacks, hash_slot>>

subscribe_instrument(symbol) ==
    /\ call' = "subscribe_instrument"
    /\ IF symbol = None
       THEN /\ raised' = "not_none"
            /\ UNCHANGED subscribed_instruments
       ELSE /\ raised' = "none"
            /\ subscribed_instruments' = subscribed_instruments \cup {symbol}
    /\ UNCHANGED <<store, ever, held, timers, executor, callbacks, hash_slot>>

unsubscribe_instrument(symbol) ==
    /\ call' = "unsubscribe_instrument"
    /\ IF symbol = None
       THEN /\ raised' = "not_none"
            /\ UNCHANGED subscribed_instruments
       ELSE /\ raised' = "none"
            /\ subscribed_instruments' = subscribed_instruments \ {symbol}
    /\ UNCHANGED <<store, ever, held, timers, executor, callbacks, hash_slot>>

\* a call_later handle fires on the event loop: run_in_executor
_subscribed_instruments_update ==
    /\ timers > 0
    /\ timers' = timers - 1
    /\ executor' = Append(executor, Loading)
    /\ UNCHANGED <<store, call, raised, ever, held, subscribed_instruments, callbacks,
                   hash_slot>>

\* _subscribed_instruments_load_and_send on an executor thread: load_all()
\* returns and the for statement takes an iterator of the set the client
\* refers to at that moment
load_all(i) ==
    /\ executor[i].pc = "load_all"
    /\ executor' = [executor EXCEPT ![i] =
                       [pc |-> "for", live |-> TRUE, object |-> {},
                        start |-> subscribed_instruments,
                        len |-> Cardinality(subscribed_instruments),
                        pos |-> 1, sent |-> {}]]
    /\ UNCHANGED <<store, call, raised, ever, held, subscribed_instruments, timers,
                   callbacks, hash_slot>>

\* one turn of the loop: the iterator yields the symbol of the next occupied
\* slot and call_soon_threadsafe queues its callback
for_symbol(i) ==
    /\ executor[i].pc = "for"
    /\ Cardinality(iterated(executor[i])) = executor[i].len
    /\ slots_left(executor[i]) # {}
    /\ Len(callbacks) < MaxCallbacks
    /\ LET k == first_slot(executor[i])
       IN  /\ callbacks' = Append(callbacks, symbol_at(k))
           /\ executor' = [executor EXCEPT ![i].pos = k + 1,
                                           ![i].sent = @ \cup {symbol_at(k)}]
    /\ UNCHANGED <<store, call, raised, ever, held, subscribed_instruments, timers,
                   hash_slot>>

\* the iterator finds the size of the set changed: RuntimeError ends the run
\* before the loop is done and before the call_later that follows it
for_RuntimeError(i) ==
    /\ executor[i].pc = "for"
    /\ Cardinality(iterated(executor[i])) # executor[i].len
    /\ executor' = Remove(executor, i)
    /\ UNCHANGED <<store, call, raised, ever, held, subscribed_instruments, timers,
                   callbacks, hash_slot>>

\* the iterator is exhausted: the run schedules the next update and ends
for_done(i) ==
    /\ executor[i].pc = "for"
    /\ Cardinality(iterated(executor[i])) = executor[i].len
    /\ slots_left(executor[i]) = {}
    /\ timers' = timers + 1
    /\ executor' = Remove(executor, i)
    /\ UNCHANGED <<store, call, raised, ever, held, subscribed_instruments, callbacks,
                   hash_slot>>

\* the event loop runs the callback at the head of its queue
_send_instrument ==
    /\ callbacks # <<>>
    /\ callbacks' = Tail(callbacks)
    /\ UNCHANGED <<store, call, raised, ever, held, subscribed_instruments, timers,
                   executor, hash_slot>>

\* ---- the state after InMemoryExecutionDatabase.__init__
EmptyStore ==
    /\ cached_accounts = EmptyDict
    /\ cached_orders = EmptyDict
    /\ cached_positions = EmptyDict
    /\ strategies = {}
    /\ index_order_position = EmptyDict
    /\ index_order_strategy = EmptyDict
    /\ index_position_strategy = EmptyDict
    /\ index_position_orders = EmptyDict
    /\ index_strategy_orders = EmptyDict
    /\ index_strategy_positions = EmptyDict
    /\ index_orders = {}
    /\ index_orders_working = {}
    /\ index_orders_completed = {}
    /\ index_positions = {}
    /\ index_positions_open = {}
    /\ index_positions_closed = {}

Init ==
    /\ EmptyStore
    /\ call = "__init__"
    /\ raised = "none"
    /\ ever = [tracking |-> FALSE, accounts |-> {}, orders |-> {}, positions |-> {}]
    /\ held = NothingHeld
    /\ InitClient
    /\ hash_slot = [symbol \in Symbols |-> symbol]

InitHistory ==
    /\ EmptyStore
    /\ call = "__init__"
    /\ raised = "none"
    /\ ever = [tracking |-> TRUE, accounts |-> {}, orders |-> {}, positions |-> {}]
    /\ held = NothingHeld
    /\ InitClient
    /\ hash_slot = [symbol \in Symbols |-> symbol]

\* A PositionId argument is an assigned id, PositionId.null() or None; a
\* StrategyId argument is an id or None.
PositionIdArgs(P) == P \cup {NULL, None}

StrategyIdArgs(S) == S \cup {None}

\* Any command, with identifiers drawn from O, P, S and A.
Next(O, P, S, A) ==
    \/ \E account \in Accounts(A) \cup {NoAccount} : add_account(account)
    \/ \E order \in Orders(O) \cup {NoOrder}, position_id \in PositionIdArgs(P),
          strategy_id \in StrategyIdArgs(S) : add_order(order, position_id, strategy_id)
    \/ \E position \in Positions(P, O) \cup {NoPosition}, strategy_id \in StrategyIdArgs(S) :
          add_position(position, strategy_id)
    \/ \E account \in Accounts(A) \cup {NoAccount} : update_account(account)
    \/ \E strategy \in Strategies(S) \cup {NoStrategy} : update_strategy(strategy)
    \/ \E order \in Orders(O) \cup {NoOrder}, is_working \in BOOLEAN, is_completed \in BOOLEAN :
          update_order(order, is_working, is_completed)
    \/ \E position \in Positions(P, O) \cup {NoPosition}, is_closed \in BOOLEAN :
          update_position(position, is_closed)
    \/ \E strategy \in Strategies(S) \cup {NoStrategy} : load_strategy(strategy)
    \/ \E strategy \in Strategies(S) \cup {NoStrategy} : delete_strategy(strategy)
    \/ reset
    \/ flush

\* two orders on one position under one strategy
Spec == Init /\ [][Next(ClientOrderIds, 1..1, 1..1, AccountIds)]_vars

\* one order and one position under two strategies
SpecStrategies == Init /\ [][Next(1..1, 1..1, StrategyIds, AccountIds)]_vars

\* one order and two positions under one strategy
SpecPositions == Init /\ [][Next(1..1, PositionIds, 1..1, AccountIds)]_vars

\* one order, position, strategy and account, with the history of added ids
SpecHistory == InitHistory /\ [][Next(1..1, 1..1, 1..1, 1..1)]_vars

\* the commands, check_residuals and the queries on one order, position,
\* strategy and account, with a caller that keeps the last id-set result
NextQueries ==
    \/ Next(1..1, 1..1, 1..1, 1..1)
    \/ check_residuals
    \/ \E query \in IdSetQueries, strategy_id \in StrategyIdArgs(1..1) :
          id_set_query(query, strategy_id)
    \/ \E query \in FilterQueries, strategy_id \in StrategyIdArgs(1..1) :
          filter_query(query, strategy_id)
    \/ \E query \in KeyQueries, id \in {1, None} : key_query(query, id)
    \/ get_symbol_position_counts
    \/ \E id \in 1..NumOrders : caller_mutates(id)

SpecQueries == Init /\ [][NextQueries]_vars

\* the commands on one order, position, strategy and account, where the
\* position handed to add_position may have no from_order
NextFromOrderNone ==
    \/ Next(1..1, 1..1, 1..1, 1..1)
    \/ \E position \in Positions(1..1, {None}), strategy_id \in 1..1 :
          add_position(position, strategy_id)

SpecFromOrderNone == Init /\ [][NextFromOrderNone]_vars

\* the BinanceDataClient after its construction, on the event loop and the
\* executor threads, with any assignment of hash slots
InitBinance ==
    /\ EmptyStore
    /\ call = "__init__"
    /\ raised = "none"
    /\ ever = [tracking |-> FALSE, accounts |-> {}, orders |-> {}, positions |-> {}]
    /\ held = NothingHeld
    /\ InitClient
    /\ hash_slot \in HashSlots

NextBinance ==
    \/ BinanceDataClient_reset
    \/ \E symbol \in Symbols \cup {None} : subscribe_instrument(symbol)
    \/ \E symbol \in Symbols \cup {None} : unsubscribe_instrument(symbol)
    \/ _subscribed_instruments_update
    \/ \E i \in DOMAIN executor : load_all(i)
    \/ \E i \in DOMAIN executor : for_symbol(i)
    \/ \E i \in DOMAIN executor : for_RuntimeError(i)
    \/ \E i \in DOMAIN executor : for_done(i)
    \/ _send_instrument

SpecBinance == InitBinance /\ [][NextBinance]_vars

\* ======================================================================
\* Properties
\* ======================================================================

\* C1 (as stated): add_order for a ClientOrderId accepted at any earlier point
\* of the store's life fails with a precondition error; likewise add_position
\* and add_account.
C1_AddedEverFails ==
    [][ /\ \A order \in Orders(ClientOrderIds), position_id \in PositionIdArgs(PositionIds),
              strategy_id \in StrategyIdArgs(StrategyIds) :
              (add_order(order, position_id, strategy_id) /\ order.cl_ord_id \in ever.orders)
                  => raised' # "none"
        /\ \A position \in Positions(PositionIds, ClientOrderIds),
              strategy_id \in StrategyIdArgs(StrategyIds) :
              (add_position(position, strategy_id) /\ position.id \in ever.positions)
                  => raised' # "none"
        /\ \A account \in Accounts(AccountIds) :
              (add_account(account) /\ account.id \in ever.accounts)
                  => raised' # "none" ]_vars

\* C1 (amended): add_order for a ClientOrderId that is a key of the primary
\* order store (accepted since construction or since the last reset) fails
\* with a precondition error, the duplicate-id one when no argument is None;
\* likewise add_position and add_account.
C1_AddedTwiceFails ==
    [][ /\ \A order \in Orders(ClientOrderIds), position_id \in PositionIdArgs(PositionIds),
              strategy_id \in StrategyIdArgs(StrategyIds) :
              (add_order(order, position_id, strategy_id)
                  /\ order.cl_ord_id \in DOMAIN cached_orders)
                  => /\ raised' # "none"
                     /\ (position_id # None /\ strategy_id # None) => raised' = "not_in"
        /\ \A position \in Positions(PositionIds, ClientOrderIds),
              strategy_id \in StrategyIdArgs(StrategyIds) :
              (add_position(position, strategy_id)
                  /\ position.id \in DOMAIN cached_positions)
                  => /\ raised' # "none"
                     /\ strategy_id # None => raised' = "not_in"
        /\ \A account \in Accounts(AccountIds) :
              (add_account(account) /\ account.id \in DOMAIN cached_accounts)
                  => raised' = "not_in" ]_vars

\* an add_order was just rejected as a duplicate of an order added since the
\* last reset, in a store that has held orders, positions and accounts
C1_Witness ==
    /\ call = "add_order"
    /\ raised = "not_in"
    /\ DOMAIN cached_orders # {}
    /\ DOMAIN cached_orders = ever.orders
    /\ DOMAIN cached_positions = ever.positions
    /\ ever.positions # {}

\* C2: no ClientOrderId is in both orders-working and orders-completed.
C2_OrderPartition ==
    index_orders_working \cap index_orders_completed = {}

\* update_order has put one order in each of the two sets
C2_Witness ==
    /\ call = "update_order"
    /\ raised = "none"
    /\ index_orders_working # {}
    /\ index_orders_completed # {}

\* C3: no PositionId is in both positions-open and positions-closed, whatever
\* the order of the add_position and update_position calls.
C3_PositionPartition ==
    index_positions_open \cap index_positions_closed = {}

\* C4: whenever order->position maps O to P, position->orders has an entry for
\* P and O is a member of it.
C4_ReferentialConsistency ==
    \A cl_ord_id \in DOMAIN index_order_position :
        /\ index_order_position[cl_ord_id] \in DOMAIN index_position_orders
        /\ cl_ord_id \in index_position_orders[index_order_position[cl_ord_id]]

\* two orders are indexed to the same position
C4_Witness ==
    \E o1 \in DOMAIN index_order_position, o2 \in DOMAIN index_order_position :
        /\ o1 # o2
        /\ index_order_position[o1] = index_order_position[o2]

\* C5 (as stated): once get_strategy_for_position(P) returns S it returns S in
\* every later state, whatever commands follow.
C5_StrategyNeverChanges ==
    [][ \A position_id \in PositionIds :
            get_strategy_for_position(position_id) # None
                => get_strategy_for_position(position_id)'
                       = get_strategy_for_position(position_id) ]_vars

\* C5 (amended): once get_strategy_for_position(P) returns S it returns S after
\* every command other than reset (which clears the association), including
\* add_order or add_position naming P with a different strategy.
C5_StrategySetOnce ==
    [][ ~reset =>
            \A position_id \in PositionIds :
                get_strategy_for_position(position_id) # None
                    => get_strategy_for_position(position_id)'
                           = get_strategy_for_position(position_id) ]_vars

\* a position associated with one strategy was afterwards indexed under the
\* other strategy and kept its association
C5_Witness ==
    /\ call \in {"add_order", "add_position"}
    /\ raised = "none"
    /\ \E position_id \in DOMAIN index_position_strategy,
          strategy_id \in DOMAIN index_strategy_positions :
          /\ strategy_id # index_position_strategy[position_id]
          /\ position_id \in index_strategy_positions[strategy_id]

\* the strategy-scoped index entries, empty when the strategy has none
strategy_orders_entry(strategy_id) ==
    IF strategy_id \in DOMAIN index_strategy_orders
    THEN index_strategy_orders[strategy_id] ELSE {}

strategy_positions_entry(strategy_id) ==
    IF strategy_id \in DOMAIN index_strategy_positions
    THEN index_strategy_positions[strategy_id] ELSE {}

\* C6: for every strategy S each of the six id-set queries Q satisfies
\* Q(S) = Q(None) \cap (the strategy-scoped index entry of S), and Q(S) is
\* empty for a strategy unknown to the strategy-scoped index.
C6_StrategyFilter ==
    \A strategy_id \in StrategyIds :
        /\ get_order_ids(strategy_id)
               = get_order_ids(None) \cap strategy_orders_entry(strategy_id)
        /\ get_order_working_ids(strategy_id)
               = get_order_working_ids(None) \cap strategy_orders_entry(strategy_id)
        /\ get_order_completed_ids(strategy_id)
               = get_order_completed_ids(None) \cap strategy_orders_entry(strategy_id)
        /\ get_position_ids(strategy_id)
               = get_position_ids(None) \cap strategy_positions_entry(strategy_id)
        /\ get_position_open_ids(strategy_id)
               = get_position_open_ids(None) \cap strategy_positions_entry(strategy_id)
        /\ get_position_closed_ids(strategy_id)
               = get_position_closed_ids(None) \cap strategy_positions_entry(strategy_id)
        /\ strategy_id \notin DOMAIN index_strategy_orders
               => /\ get_order_ids(strategy_id) = {}
                  /\ get_order_working_ids(strategy_id) = {}
                  /\ get_order_completed_ids(strategy_id) = {}
        /\ strategy_id \notin DOMAIN index_strategy_positions
               => /\ get_position_ids(strategy_id) = {}
                  /\ get_position_open_ids(strategy_id) = {}
                  /\ get_position_closed_ids(strategy_id) = {}

\* a working order and an open position show under their own strategy and not
\* under the other one
C6_Witness ==
    \E s1 \in StrategyIds, s2 \in StrategyIds :
        /\ s1 # s2
        /\ get_order_working_ids(s1) # {}
        /\ get_order_working_ids(s2) = {}
        /\ get_position_open_ids(s1) # {}
        /\ get_position_open_ids(s2) = {}
        /\ get_order_working_ids(None) = get_order_working_ids(s1)

\* C7: a successful delete_strategy(S) removes S from the known strategies and
\* drops strategy->orders[S] and strategy->positions[S], so get_order_ids(S) and
\* get_position_ids(S) are empty right afterwards; the three primary mappings
\* are unchanged and every order and position associated with S is returned by
\* get_order / get_position / load_order / load_position as before.
C7_DeleteStrategyNonDestructive ==
    [][ \A strategy \in Strategies(StrategyIds) :
            (delete_strategy(strategy) /\ raised' = "none")
                => /\ strategy.id \notin get_strategy_ids'
                   /\ strategy.id \notin DOMAIN index_strategy_orders'
                   /\ strategy.id \notin DOMAIN index_strategy_positions'
                   /\ get_order_ids(strategy.id)' = {}
                   /\ get_position_ids(strategy.id)' = {}
                   /\ cached_accounts' = cached_accounts
                   /\ cached_orders' = cached_orders
                   /\ cached_positions' = cached_positions
                   /\ \A cl_ord_id \in ClientOrderIds :
                          get_strategy_for_order(cl_ord_id) = strategy.id
                              => /\ get_order(cl_ord_id)' # NoOrder
                                 /\ get_order(cl_ord_id)' = get_order(cl_ord_id)
                                 /\ load_order(cl_ord_id)' = get_order(cl_ord_id)
                   /\ \A position_id \in PositionIds :
                          get_strategy_for_position(position_id) = strategy.id
                              => /\ get_position(position_id)' = get_position(position_id)
                                 /\ load_position(position_id)' = get_position(position_id) ]_vars

\* a strategy was just deleted and an order and a position of a deleted
\* strategy are still in the primary store
C7_Witness ==
    /\ call = "delete_strategy"
    /\ raised = "none"
    /\ \E cl_ord_id \in DOMAIN cached_orders :
           /\ get_strategy_for_order(cl_ord_id) \notin DOMAIN index_strategy_orders
           /\ get_strategy_for_order(cl_ord_id) \notin strategies
    /\ \E position_id \in DOMAIN cached_positions :
           /\ get_strategy_for_position(position_id) \notin DOMAIN index_strategy_positions
           /\ get_strategy_for_position(position_id) \notin strategies

\* C8: right after reset() every id-set query, with or without a strategy
\* filter, is empty, get_strategy_ids() is empty, every existence / predicate
\* query is false for every id and every load_* / get_* lookup is not-found.
C8_ResetClears ==
    call = "reset" =>
        /\ \A strategy_id \in StrategyIds \cup {None} :
               /\ get_order_ids(strategy_id) = {}
               /\ get_order_working_ids(strategy_id) = {}
               /\ get_order_completed_ids(strategy_id) = {}
               /\ get_position_ids(strategy_id) = {}
               /\ get_position_open_ids(strategy_id) = {}
               /\ get_position_closed_ids(strategy_id) = {}
        /\ get_strategy_ids = {}
        /\ \A cl_ord_id \in ClientOrderIds :
               /\ ~order_exists(cl_ord_id)
               /\ ~is_order_working(cl_ord_id)
               /\ ~is_order_completed(cl_ord_id)
               /\ ~position_exists_for_order(cl_ord_id)
               /\ ~position_indexed_for_order(cl_ord_id)
               /\ load_order(cl_ord_id) = NoOrder
               /\ get_order(cl_ord_id) = NoOrder
               /\ get_strategy_for_order(cl_ord_id) = None
               /\ get_position_id(cl_ord_id) = None
        /\ \A position_id \in PositionIds :
               /\ ~position_exists(position_id)
               /\ ~is_position_open(position_id)
               /\ ~is_position_closed(position_id)
               /\ load_position(position_id) = NoPosition
               /\ get_position(position_id) = NoPosition
               /\ get_strategy_for_position(position_id) = None
        /\ \A account_id \in AccountIds :
               /\ load_account(account_id) = NoAccount
               /\ get_account(account_id) = NoAccount

\* reset has just run on a store that had accepted an account, an order and a
\* position
C8_Witness ==
    /\ call = "reset"
    /\ ever.accounts # {}
    /\ ever.orders # {}
    /\ ever.positions # {}

\* C9: for every strategy filter S, None included, each of the six count
\* queries equals the cardinality of its id-set query with the same filter.
C9_CountConsistency ==
    \A strategy_id \in StrategyIds \cup {None} :
        /\ orders_total_count(strategy_id) = Cardinality(get_order_ids(strategy_id))
        /\ orders_working_count(strategy_id) = Cardinality(get_order_working_ids(strategy_id))
        /\ orders_completed_count(strategy_id)
               = Cardinality(get_order_completed_ids(strategy_id))
        /\ positions_total_count(strategy_id) = Cardinality(get_position_ids(strategy_id))
        /\ positions_open_count(strategy_id) = Cardinality(get_position_open_ids(strategy_id))
        /\ positions_closed_count(strategy_id)
               = Cardinality(get_position_closed_ids(strategy_id))

\* the filtered and the unfiltered counts differ: an order is working and a
\* position is closed, and one strategy has neither
C9_Witness ==
    /\ orders_working_count(None) = 1
    /\ positions_closed_count(None) = 1
    /\ \E s1 \in StrategyIds, s2 \in StrategyIds :
           /\ orders_working_count(s1) = 1
           /\ positions_closed_count(s1) = 1
           /\ orders_working_count(s2) = 0
           /\ positions_closed_count(s2) = 0

\* C10: a successful add_order(O, NULL, S) leaves order->position,
\* position->strategy, position->orders and strategy->positions unchanged, so
\* right afterwards get_position_id(O) is not-found,
\* position_indexed_for_order(O) is false and O is in no position->orders set.
C10_NullPositionSkip ==
    [][ \A order \in Orders(ClientOrderIds), strategy_id \in StrategyIds :
            (add_order(order, NULL, strategy_id) /\ raised' = "none")
                => /\ index_order_position' = index_order_position
                   /\ index_position_strategy' = index_position_strategy
                   /\ index_position_orders' = index_position_orders
                   /\ index_strategy_positions' = index_strategy_positions
                   /\ get_position_id(order.cl_ord_id)' = None
                   /\ ~position_indexed_for_order(order.cl_ord_id)'
                   /\ \A position_id \in DOMAIN index_position_orders' :
                          order.cl_ord_id \notin index_position_orders'[position_id] ]_vars

\* the only order of the store was just added with the NULL position id, while
\* a position opened from another order is indexed
C10_Witness ==
    /\ call = "add_order"
    /\ raised = "none"
    /\ DOMAIN index_position_orders # {}
    /\ \E cl_ord_id \in ClientOrderIds :
           /\ index_orders = {cl_ord_id}
           /\ cl_ord_id \notin DOMAIN index_order_position
           /\ get_position_id(cl_ord_id) = None

\* ---- the end-to-end scenario: O1, P1 (opened from O1) and S1, and the store
\* after each of its commands, with `known` the set of known strategies
O1 == [cl_ord_id |-> 1]

P1 == [id |-> 1, from_order |-> 1]

S1 == [id |-> 1]

BeforeAddOrder(known) ==
    /\ cached_accounts = EmptyDict
    /\ cached_orders = EmptyDict
    /\ cached_positions = EmptyDict
    /\ strategies = known
    /\ index_order_position = EmptyDict
    /\ index_order_strategy = EmptyDict
    /\ index_position_strategy = EmptyDict
    /\ index_position_orders = EmptyDict
    /\ index_strategy_orders = EmptyDict
    /\ index_strategy_positions = EmptyDict
    /\ index_orders = {}
    /\ index_orders_working = {}
    /\ index_orders_completed = {}
    /\ index_positions = {}
    /\ index_positions_open = {}
    /\ index_positions_closed = {}

AfterAddOrder(known) ==
    /\ cached_accounts = EmptyDict
    /\ cached_orders = Put(EmptyDict, 1, O1)
    /\ cached_positions = EmptyDict
    /\ strategies = known
    /\ index_order_position = EmptyDict
    /\ index_order_strategy = Put(EmptyDict, 1, 1)
    /\ index_position_strategy = EmptyDict
    /\ index_position_orders = EmptyDict
    /\ index_strategy_orders = Put(EmptyDict, 1, {1})
    /\ index_strategy_positions = EmptyDict
    /\ index_orders = {1}
    /\ index_orders_working = {}
    /\ index_orders_completed = {}
    /\ index_positions = {}
    /\ index_positions_open = {}
    /\ index_positions_closed = {}

AfterAddPosition(known) ==
    /\ cached_accounts = EmptyDict
    /\ cached_orders = Put(EmptyDict, 1, O1)
    /\ cached_positions = Put(EmptyDict, 1, P1)
    /\ strategies = known
    /\ index_order_position = Put(EmptyDict, 1, 1)
    /\ index_order_strategy = Put(EmptyDict, 1, 1)
    /\ index_position_strategy = Put(EmptyDict, 1, 1)
    /\ index_position_orders = Put(EmptyDict, 1, {1})
    /\ index_strategy_orders = Put(EmptyDict, 1, {1})
    /\ index_strategy_positions = Put(EmptyDict, 1, {1})
    /\ index_orders = {1}
    /\ index_orders_working = {}
    /\ index_orders_completed = {}
    /\ index_positions = {1}
    /\ index_positions_open = {1}
    /\ index_positions_closed = {}

AfterUpdatePosition(known) ==
    /\ cached_accounts = EmptyDict
    /\ cached_orders = Put(EmptyDict, 1, O1)
    /\ cached_positions = Put(EmptyDict, 1, P1)
    /\ strategies = known
    /\ index_order_position = Put(EmptyDict, 1, 1)
    /\ index_order_strategy = Put(EmptyDict, 1, 1)
    /\ index_position_strategy = Put(EmptyDict, 1, 1)
    /\ index_position_orders = Put(EmptyDict, 1, {1})
    /\ index_strategy_orders = Put(EmptyDict, 1, {1})
    /\ index_strategy_positions = Put(EmptyDict, 1, {1})
    /\ index_orders = {1}
    /\ index_orders_working = {}
    /\ index_orders_completed = {}
    /\ index_positions = {1}
    /\ index_positions_open = {}
    /\ index_positions_closed = {1}

\* the commands of the scenario, each from the store the previous one leaves,
\* with what the scenario observes after each
ScenarioAddOrder(known) ==
    (BeforeAddOrder(known) /\ add_order(O1, NULL, 1))
        => /\ raised' = "none"
           /\ order_exists(1)'
           /\ get_position_id(1)' = None
           /\ get_order_ids(1)' = {1}
           /\ AfterAddOrder(known)'

ScenarioAddPosition(known) ==
    (AfterAddOrder(known) /\ add_position(P1, 1))
        => /\ raised' = "none"
           /\ get_position_ids(1)' = {1}
           /\ is_position_open(1)'
           /\ AfterAddPosition(known)'

ScenarioUpdatePosition(known) ==
    (AfterAddPosition(known) /\ update_position(P1, TRUE))
        => /\ raised' = "none"
           /\ positions_closed_count(1)' = 1
           /\ positions_open_count(1)' = 0
           /\ AfterUpdatePosition(known)'

ScenarioDeleteStrategy(known) ==
    (AfterUpdatePosition(known) /\ delete_strategy(S1))
        => /\ raised' = "none"
           /\ get_order_ids(1)' = {}
           /\ load_order(1)' = O1

\* C11 (as stated): from the empty store, add_order(O1, NULL, S1);
\* add_position(P1 from O1, S1); update_position(P1 closed); delete_strategy(S1)
\* run without a precondition failure and yield the listed observations.
C11_Scenario ==
    [][ /\ ScenarioAddOrder({})
        /\ ScenarioAddPosition({})
        /\ ScenarioUpdatePosition({})
        /\ ScenarioDeleteStrategy({}) ]_vars

\* C11 (amended): the same sequence with update_strategy(S1) run at any point
\* before delete_strategy(S1) completes without a precondition failure and
\* yields the listed observations.
C11_ScenarioRegistered ==
    [][ /\ \A known \in {{}, {1}} :
               /\ ScenarioAddOrder(known)
               /\ ScenarioAddPosition(known)
               /\ ScenarioUpdatePosition(known)
        /\ (BeforeAddOrder({}) /\ update_strategy(S1))
               => (raised' = "none" /\ BeforeAddOrder({1})')
        /\ (AfterAddOrder({}) /\ update_strategy(S1))
               => (raised' = "none" /\ AfterAddOrder({1})')
        /\ (AfterAddPosition({}) /\ update_strategy(S1))
               => (raised' = "none" /\ AfterAddPosition({1})')
        /\ (AfterUpdatePosition({}) /\ update_strategy(S1))
               => (raised' = "none" /\ AfterUpdatePosition({1})')
        /\ ScenarioDeleteStrategy({1}) ]_vars

\* the store at the end of the scenario: S1 deleted, O1 and the closed P1 kept
C11_Witness ==
    /\ call = "delete_strategy"
    /\ raised = "none"
    /\ strategies = {}
    /\ cached_orders = Put(EmptyDict, 1, O1)
    /\ cached_positions = Put(EmptyDict, 1, P1)
    /\ index_positions_closed = {1}
    /\ index_positions_open = {}
    /\ index_order_position = Put(EmptyDict, 1, 1)
    /\ index_strategy_orders = EmptyDict
    /\ index_strategy_positions = EmptyDict
    /\ index_orders_working = {}
    /\ index_orders_completed = {}
    /\ cached_accounts = EmptyDict

\* C12: delete_strategy(S) for an S that is not among the known strategies
\* fails with the not-found precondition error and changes nothing, even when
\* S has entries in Strategy->orders and Strategy->positions.
C12_DeleteUnknownStrategy ==
    [][ \A strategy \in Strategies(StrategyIds) :
            (delete_strategy(strategy) /\ strategy.id \notin strategies)
                => (raised' = "is_in" /\ UNCHANGED store) ]_vars

C12_Witness ==
    /\ call = "delete_strategy"
    /\ raised = "is_in"
    /\ strategies = {}
    /\ 1 \in DOMAIN index_strategy_orders
    /\ 1 \in DOMAIN index_strategy_positions
    /\ 2 \in DOMAIN index_strategy_positions

\* C13: add_order(O, P, S) is rejected, with the store unchanged, when O is in
\* the primary order store, in orders (all), in Order->position or in
\* Order->strategy; otherwise it inserts O in the primary store and in orders
\* (all), sets Order->strategy[O] = S, adds O to Strategy->orders[S], and leaves
\* orders (working) and orders (completed) unchanged.
C13_AddOrder ==
    [][ \A order \in Orders(ClientOrderIds), position_id \in PositionIds \cup {NULL},
           strategy_id \in StrategyIds :
            add_order(order, position_id, strategy_id)
                => IF \/ order.cl_ord_id \in DOMAIN cached_orders
                      \/ order.cl_ord_id \in index_orders
                      \/ order.cl_ord_id \in DOMAIN index_order_position
                      \/ order.cl_ord_id \in DOMAIN index_order_strategy
                   THEN raised' = "not_in" /\ UNCHANGED store
                   ELSE /\ raised' = "none"
                        /\ cached_orders' = Put(cached_orders, order.cl_ord_id, order)
                        /\ index_orders' = index_orders \cup {order.cl_ord_id}
                        /\ index_order_strategy'
                               = Put(index_order_strategy, order.cl_ord_id, strategy_id)
                        /\ strategy_id \in DOMAIN index_strategy_orders'
                        /\ order.cl_ord_id \in index_strategy_orders'[strategy_id]
                        /\ UNCHANGED <<index_orders_working, index_orders_completed>> ]_vars

\* an add_order rejected although no order is stored: its id is only in Order->position
C13_Witness ==
    /\ call = "add_order"
    /\ raised = "not_in"
    /\ DOMAIN cached_orders = {}
    /\ index_orders = {}
    /\ DOMAIN index_order_strategy = {}
    /\ DOMAIN index_order_position # {}

\* C14: add_position(P, S) is rejected, with the store unchanged, when P.id is in
\* the primary position store, in positions (all) or in positions (open);
\* otherwise it inserts P in the primary store, adds P.id to positions (all) and
\* positions (open), so that is_position_open(P.id) holds, and runs the index
\* routine with (P.id, P.from_order, S).
C14_AddPosition ==
    [][ \A position \in Positions(PositionIds, ClientOrderIds), strategy_id \in StrategyIds :
            add_position(position, strategy_id)
                => IF \/ position.id \in DOMAIN cached_positions
                      \/ position.id \in index_positions
                      \/ position.id \in index_positions_open
                   THEN raised' = "not_in" /\ UNCHANGED store
                   ELSE /\ raised' = "none"
                        /\ cached_positions' = Put(cached_positions, position.id, position)
                        /\ index_positions' = index_positions \cup {position.id}
                        /\ index_positions_open' = index_positions_open \cup {position.id}
                        /\ is_position_open(position.id)'
                        /\ index_position_id(position.id, position.from_order, strategy_id)
                        /\ position.from_order \in index_position_orders'[position.id]
                        /\ position.id \in index_strategy_positions'[strategy_id] ]_vars

C14_Witness ==
    /\ call = "add_position"
    /\ raised = "none"
    /\ index_positions_open = PositionIds
    /\ index_positions = PositionIds
    /\ \A p \in PositionIds :
           /\ p \in DOMAIN cached_positions
           /\ cached_positions[p].from_order \in index_position_orders[p]
           /\ p \in index_strategy_positions[index_position_strategy[p]]

\* C15: when add_position stores a position P2 whose from_order O already maps
\* to a different position P1, Order->position[O] stays P1, no error is raised,
\* and P2 is stored in the primary position store.
C15_OrderPositionSetOnce ==
    [][ \A position \in Positions(PositionIds, ClientOrderIds), strategy_id \in StrategyIds :
            ( /\ add_position(position, strategy_id)
              /\ ~ add_position_duplicate(position.id)
              /\ position.from_order \in DOMAIN index_order_position
              /\ index_order_position[position.from_order] # position.id )
                => /\ raised' = "none"
                   /\ index_order_position' = index_order_position
                   /\ position.id \in DOMAIN cached_positions'
                   /\ cached_positions'[position.id] = position ]_vars

\* a stored position whose opening order is indexed to another position
C15_Witness ==
    /\ call = "add_position"
    /\ raised = "none"
    /\ \E p \in DOMAIN cached_positions :
           /\ cached_positions[p].from_order \in DOMAIN index_order_position
           /\ index_order_position[cached_positions[p].from_order] # p

\* C16: update_order(O) puts O in orders (working) and out of orders
\* (completed) when O.is_working(); otherwise puts O in orders (completed) and
\* out of orders (working) when O.is_completed(); otherwise leaves the store
\* unchanged.  Nothing but these two sets ever changes.
C16_UpdateOrder ==
    [][ \A order \in Orders(ClientOrderIds), is_working \in BOOLEAN, is_completed \in BOOLEAN :
            update_order(order, is_working, is_completed)
                => /\ raised' = "none"
                   /\ is_working
                        => /\ order.cl_ord_id \in index_orders_working'
                           /\ order.cl_ord_id \notin index_orders_completed'
                   /\ (~ is_working /\ is_completed)
                        => /\ order.cl_ord_id \in index_orders_completed'
                           /\ order.cl_ord_id \notin index_orders_working'
                   /\ (~ is_working /\ ~ is_completed) => UNCHANGED store
                   /\ UNCHANGED <<caches, strategies, index_order_position,
                                  index_order_strategy, index_position_strategy,
                                  index_position_orders, index_strategy_orders,
                                  index_strategy_positions, index_orders, index_positions,
                                  index_positions_open, index_positions_closed>> ]_vars

C16_Witness ==
    /\ call = "update_order"
    /\ raised = "none"
    /\ index_orders_working = {1}
    /\ index_orders_completed = {2}
    /\ index_orders = {1, 2}

\* C17: update_position(P) puts P.id in positions (closed) and out of positions
\* (open) when P.is_closed(); otherwise it leaves the store unchanged.  No call
\* moves an id from positions (closed) to positions (open).
C17_UpdatePosition ==
    [][ \A position \in Positions(PositionIds, ClientOrderIds), is_closed \in BOOLEAN :
            update_position(position, is_closed)
                => /\ raised' = "none"
                   /\ is_closed
                        => /\ position.id \in index_positions_closed'
                           /\ position.id \notin index_positions_open'
                   /\ ~ is_closed => UNCHANGED store
                   /\ \A p \in PositionIds :
                          (p \in index_positions_closed /\ p \notin index_positions_open)
                              => (p \in index_positions_closed' /\ p \notin index_positions_open')
        ]_vars

C17_Witness ==
    /\ call = "update_position"
    /\ raised = "none"
    /\ index_positions = PositionIds
    /\ index_positions_closed = PositionIds
    /\ index_positions_open = {}

\* C18: orders (working) and orders (completed) are subsets of orders (all):
\* is_order_working(O) or is_order_completed(O) implies order_exists(O).
C18_OrderSubsets ==
    \A cl_ord_id \in ClientOrderIds :
        (is_order_working(cl_ord_id) \/ is_order_completed(cl_ord_id))
            => order_exists(cl_ord_id)

\* C19: positions (open) and positions (closed) cover exactly positions (all):
\* position_exists(P) holds exactly when is_position_open(P) or
\* is_position_closed(P) holds.
C19_PositionCover ==
    \A position_id \in PositionIds :
        position_exists(position_id)
            <=> (is_position_open(position_id) \/ is_position_closed(position_id))

\* C20: each dict-returning query returns the mapping from the ids of its
\* id-set query that are in the primary store to their records: an id missing
\* from the primary store is left out and the other entries are still returned.
C20_BestEffortDictQueries ==
    LET partial_mapping(ids, cache) == [k \in ids \cap DOMAIN cache |-> cache[k]]
    IN
    \A strategy_id \in StrategyIds \cup {None} :
        /\ get_orders(strategy_id)
               = partial_mapping(get_order_ids(strategy_id), cached_orders)
        /\ get_orders_working(strategy_id)
               = partial_mapping(get_order_working_ids(strategy_id), cached_orders)
        /\ get_orders_completed(strategy_id)
               = partial_mapping(get_order_completed_ids(strategy_id), cached_orders)
        /\ get_positions(strategy_id)
               = partial_mapping(get_position_ids(strategy_id), cached_positions)
        /\ get_positions_open(strategy_id)
               = partial_mapping(get_position_open_ids(strategy_id), cached_positions)
        /\ get_positions_closed(strategy_id)
               = partial_mapping(get_position_closed_ids(strategy_id), cached_positions)

\* C21: check_residuals completes without error in every reachable state,
\* logs one warning for each id in orders (working) and one for each id in
\* positions (open), and changes no cache and no index.
C21_CheckResiduals ==
    [][ check_residuals
            => /\ raised' = "none"
               /\ check_residuals_warnings
                      = [orders |-> index_orders_working, positions |-> index_positions_open]
               /\ UNCHANGED store ]_vars

\* C22: load_account / load_order / load_position and get_account / get_order /
\* get_position, given a non-null id, return the stored record when the id is a
\* key of the primary mapping and the not-found result otherwise, and get_X
\* returns what load_X returns.
C22_NotFoundIsNotAnError ==
    /\ \A account_id \in AccountIds :
           /\ account_id \in DOMAIN cached_accounts
                  => load_account(account_id) = cached_accounts[account_id]
           /\ account_id \notin DOMAIN cached_accounts => load_account(account_id) = NoAccount
           /\ get_account(account_id) = load_account(account_id)
    /\ \A cl_ord_id \in ClientOrderIds :
           /\ cl_ord_id \in DOMAIN cached_orders
                  => load_order(cl_ord_id) = cached_orders[cl_ord_id]
           /\ cl_ord_id \notin DOMAIN cached_orders => load_order(cl_ord_id) = NoOrder
           /\ get_order(cl_ord_id) = load_order(cl_ord_id)
    /\ \A position_id \in PositionIds :
           /\ position_id \in DOMAIN cached_positions
                  => load_position(position_id) = cached_positions[position_id]
           /\ position_id \notin DOMAIN cached_positions
                  => load_position(position_id) = NoPosition
           /\ get_position(position_id) = load_position(position_id)

\* order 1 and the closed position 1 are stored, order 2 is not
C22_Witness ==
    /\ load_order(1) = [cl_ord_id |-> 1]
    /\ get_order(2) = NoOrder
    /\ get_position(1) # NoPosition
    /\ is_position_closed(1)
    /\ ~ is_position_open(1)
    /\ load_account(1) = NoAccount

C24_SnapshotAtCallTime ==
    [][ /\ call' \notin IdSetQueries \cup {"caller_mutates"} => held_value' = held_value
        /\ \A id \in 1..NumOrders : caller_mutates(id) => UNCHANGED store ]_vars

\* the caller still holds {1} and has added 2 to it, after the store was reset
C24_Witness ==
    /\ held_value = {1, 2}
    /\ index_orders = {}
    /\ index_positions = {}
    /\ strategies = {}
    /\ call = "reset"

\* C25: no query changes a cache, an index or a set of the store.
C25_QueriesReadOnly ==
    [][ call' \in IdSetQueries \cup FilterQueries \cup KeyQueries
                     \cup {"get_symbol_position_counts"}
            => UNCHANGED store ]_vars

\* a lookup of the position of an order that has one
C25_Witness ==
    /\ call = "get_position_id"
    /\ raised = "none"
    /\ get_position_id(1) = 1
    /\ position_exists_for_order(1)

C28_ImplicitReopen ==
    [][ \A position \in Positions(PositionIds, ClientOrderIds) :
            (update_position(position, FALSE) /\ is_position_closed(position.id))
                => is_position_open(position.id)' ]_vars

\* C28 (amended): that call leaves P.id in positions (closed) and leaves
\* positions (open) as it was: no position is reopened.
C28_NoImplicitReopen ==
    [][ \A position \in Positions(PositionIds, ClientOrderIds) :
            (update_position(position, FALSE) /\ is_position_closed(position.id))
                => /\ raised' = "none"
                   /\ is_position_closed(position.id)'
                   /\ is_position_open(position.id)' = is_position_open(position.id)
                   /\ UNCHANGED store ]_vars

C28_Witness ==
    /\ call = "update_position"
    /\ raised = "none"
    /\ is_position_closed(1)
    /\ ~ is_position_open(1)
    /\ position_exists(1)
    /\ ~ position_exists(2)
    /\ ~ is_position_closed(2)

\* C29: position_exists_for_order(O) holds exactly when Order->position has an
\* entry for O whose PositionId is in positions (all); it implies
\* position_indexed_for_order(O); and after add_order(O, P, S) with P not yet
\* added, position_indexed_for_order(O) holds and position_exists_for_order(O)
\* does not.
C29_PositionExistsForOrder ==
    [][ /\ \A cl_ord_id \in ClientOrderIds :
               /\ position_exists_for_order(cl_ord_id)'
                      <=> /\ cl_ord_id \in DOMAIN index_order_position'
                          /\ index_order_position'[cl_ord_id] \in index_positions'
               /\ position_exists_for_order(cl_ord_id)'
                      => position_indexed_for_order(cl_ord_id)'
        /\ \A order \in Orders(ClientOrderIds), position_id \in PositionIds,
              strategy_id \in StrategyIds :
               ( /\ add_order(order, position_id, strategy_id)
                 /\ raised' = "none"
                 /\ ~ position_exists(position_id) )
                   => /\ position_indexed_for_order(order.cl_ord_id)'
                      /\ ~ position_exists_for_order(order.cl_ord_id)' ]_vars

\* an order added with a position id that no add_position has stored
C29_Witness ==
    /\ call = "add_order"
    /\ raised = "none"
    /\ index_positions = {}
    /\ position_indexed_for_order(1)
    /\ ~ position_exists_for_order(1)
    /\ get_position_id(1) = 1

\* C30: the key set of the primary order store, orders (all) and the key set of
\* Order->strategy are equal: order_exists(O) iff get_order(O) returns a record
\* iff get_strategy_for_order(O) returns a strategy.
C30_OrderStoreIndexAgreement ==
    /\ DOMAIN cached_orders = index_orders
    /\ index_orders = DOMAIN index_order_strategy
    /\ \A cl_ord_id \in ClientOrderIds :
           /\ order_exists(cl_ord_id) <=> get_order(cl_ord_id) # NoOrder
           /\ order_exists(cl_ord_id) <=> get_strategy_for_order(cl_ord_id) # None

\* order 1 is stored with its strategy after that strategy was deleted; order 2 is not
C30_Witness ==
    /\ call = "delete_strategy"
    /\ raised = "none"
    /\ order_exists(1)
    /\ get_order(1) = [cl_ord_id |-> 1]
    /\ get_strategy_for_order(1) = 1
    /\ ~ order_exists(2)
    /\ get_order(2) = NoOrder
    /\ get_strategy_for_order(2) = None

\* C31: the key set of the primary position store equals positions (all),
\* positions (open) is a subset of it, and every id in positions (all) has an
\* entry in Position->strategy and in Position->orders.
C31_PositionStoreIndexAgreement ==
    /\ DOMAIN cached_positions = index_positions
    /\ index_positions_open \subseteq index_positions
    /\ index_positions \subseteq DOMAIN index_position_strategy
    /\ index_positions \subseteq DOMAIN index_position_orders

\* C32 (as stated): for every strategy S and every PositionId P in
\* Strategy->positions[S], Position->strategy[P] = S, so no PositionId is
\* returned by get_position_ids for two different strategies.
C32_StrategyPositionsAgree ==
    /\ \A strategy_id \in DOMAIN index_strategy_positions :
           \A position_id \in index_strategy_positions[strategy_id] :
               /\ position_id \in DOMAIN index_position_strategy
               /\ index_position_strategy[position_id] = strategy_id
    /\ \A s1 \in StrategyIds, s2 \in StrategyIds :
           s1 # s2 => get_position_ids(s1) \cap get_position_ids(s2) = {}

\* C32 (amended): a PositionId P in Strategy->positions[S] has an entry in
\* Position->strategy, and when P enters Strategy->positions[S] that entry is
\* S unless P was already associated with another strategy.
C32_StrategyPositionsAgreeAtFirstIndexing ==
    [][ \A strategy_id \in StrategyIds, position_id \in PositionIds :
            /\ position_id \in strategy_positions_entry(strategy_id)'
                   => position_id \in DOMAIN index_position_strategy'
            /\ ( /\ position_id \in strategy_positions_entry(strategy_id)'
                 /\ position_id \notin strategy_positions_entry(strategy_id) )
                   => \/ index_position_strategy'[position_id] = strategy_id
                      \/ /\ position_id \in DOMAIN index_position_strategy
                         /\ index_position_strategy[position_id] # strategy_id ]_vars

\* position 1 is in the positions of both strategies and associated with one
C32_Witness ==
    /\ strategy_positions_entry(1) = {1}
    /\ strategy_positions_entry(2) = {1}
    /\ get_strategy_for_position(1) \in StrategyIds
    /\ get_position_ids(1) = {1}
    /\ get_position_ids(2) = {1}

\* C33: for every strategy S and every ClientOrderId O in Strategy->orders[S],
\* Order->strategy[O] = S, so no order id is returned by get_order_ids for two
\* different strategies.
C33_StrategyOrdersAgree ==
    /\ \A strategy_id \in DOMAIN index_strategy_orders :
           \A cl_ord_id \in index_strategy_orders[strategy_id] :
               /\ cl_ord_id \in DOMAIN index_order_strategy
               /\ index_order_strategy[cl_ord_id] = strategy_id
    /\ \A s1 \in StrategyIds, s2 \in StrategyIds :
           s1 # s2 => get_order_ids(s1) \cap get_order_ids(s2) = {}

\* order 1 was added under strategy 2 and is returned for that strategy only
C33_Witness ==
    /\ call = "add_order"
    /\ raised = "none"
    /\ get_order_ids(2) = {1}
    /\ get_order_ids(1) = {}
    /\ get_strategy_for_order(1) = 2

\* C34 (as stated): whenever ClientOrderId O is in Position->orders[P],
\* Order->position maps O to P.
C34_ConverseReferentialConsistency ==
    \A position_id \in DOMAIN index_position_orders :
        \A cl_ord_id \in index_position_orders[position_id] :
            /\ cl_ord_id \in DOMAIN index_order_position
            /\ index_order_position[cl_ord_id] = position_id

\* C34 (amended): an O in Position->orders[P] has an entry in Order->position,
\* and when O enters Position->orders[P] that entry is P unless O was already
\* mapped to another position.
C34_ConverseConsistencyAtFirstIndexing ==
    [][ \A position_id \in PositionIds, cl_ord_id \in ClientOrderIds :
            /\ ( /\ position_id \in DOMAIN index_position_orders'
                 /\ cl_ord_id \in index_position_orders'[position_id] )
                   => cl_ord_id \in DOMAIN index_order_position'
            /\ ( /\ position_id \in DOMAIN index_position_orders'
                 /\ cl_ord_id \in index_position_orders'[position_id]
                 /\ ~ ( /\ position_id \in DOMAIN index_position_orders
                        /\ cl_ord_id \in index_position_orders[position_id] ) )
                   => \/ index_order_position'[cl_ord_id] = position_id
                      \/ /\ cl_ord_id \in DOMAIN index_order_position
                         /\ index_order_position[cl_ord_id] # position_id ]_vars

\* order 1 is in the orders of both positions and mapped to one of them
C34_Witness ==
    /\ DOMAIN index_position_orders = {1, 2}
    /\ index_position_orders[1] = {1}
    /\ index_position_orders[2] = {1}
    /\ get_position_id(1) \in PositionIds

\* C35 (as stated): add_order(O, P, S) with non-null arguments and O not a key
\* of the primary order store is accepted, whatever commands ran before.
C35_FirstAddSucceeds ==
    [][ \A order \in Orders(ClientOrderIds), position_id \in PositionIds \cup {NULL},
           strategy_id \in StrategyIds :
            ( /\ add_order(order, position_id, strategy_id)
              /\ order.cl_ord_id \notin DOMAIN cached_orders )
                => raised' = "none" ]_vars

\* C35 (amended): it is accepted when, besides, no add_position has indexed O
\* in Order->position.
C35_FirstAddSucceedsUnlessIndexed ==
    [][ \A order \in Orders(ClientOrderIds), position_id \in PositionIds \cup {NULL},
           strategy_id \in StrategyIds :
            ( /\ add_order(order, position_id, strategy_id)
              /\ order.cl_ord_id \notin DOMAIN cached_orders
              /\ order.cl_ord_id \notin DOMAIN index_order_position )
                => raised' = "none" ]_vars

\* an order accepted after update_order had already filed its id as completed
C35_Witness ==
    /\ call = "add_order"
    /\ raised = "none"
    /\ index_orders = {1}
    /\ index_orders_completed = {1, 2}
    /\ DOMAIN index_order_position = {}

\* C36: a command that fails with a precondition violation leaves every cache,
\* index and set as it was, add_position of a position without from_order
\* included.
C36_FailedCommandsAtomic ==
    [][ ( /\ raised' # "none"
          /\ call' \in {"add_account", "add_order", "add_position", "update_account",
                        "update_strategy", "update_order", "update_position",
                        "load_strategy", "delete_strategy"} )
            => UNCHANGED store ]_vars

\* C37: delete_strategy(S) changes only the known strategies, Strategy->orders
\* and Strategy->positions: get_strategy_for_order and get_strategy_for_position
\* answer as before, the unfiltered id-set queries return what they returned,
\* and the queries filtered by S return the empty set.
C37_DeleteStrategyFrame ==
    [][ \A strategy \in Strategies(StrategyIds) :
            (delete_strategy(strategy) /\ raised' = "none")
                => /\ UNCHANGED <<caches, index_order_position, index_order_strategy,
                                  index_position_strategy, index_position_orders,
                                  index_orders, index_orders_working,
                                  index_orders_completed, index_positions,
                                  index_positions_open, index_positions_closed>>
                   /\ \A cl_ord_id \in ClientOrderIds :
                          get_strategy_for_order(cl_ord_id)' = get_strategy_for_order(cl_ord_id)
                   /\ \A position_id \in PositionIds :
                          get_strategy_for_position(position_id)'
                              = get_strategy_for_position(position_id)
                   /\ get_order_ids(None)' = get_order_ids(None)
                   /\ get_order_working_ids(None)' = get_order_working_ids(None)
                   /\ get_order_completed_ids(None)' = get_order_completed_ids(None)
                   /\ get_position_ids(None)' = get_position_ids(None)
                   /\ get_position_open_ids(None)' = get_position_open_ids(None)
                   /\ get_position_closed_ids(None)' = get_position_closed_ids(None)
                   /\ get_order_ids(strategy.id)' = {}
                   /\ get_order_working_ids(strategy.id)' = {}
                   /\ get_order_completed_ids(strategy.id)' = {}
                   /\ get_position_ids(strategy.id)' = {}
                   /\ get_position_open_ids(strategy.id)' = {}
                   /\ get_position_closed_ids(strategy.id)' = {}
                   /\ strategies' = strategies \ {strategy.id} ]_vars

\* strategy 1 was deleted: its working order and open position still name it
C37_Witness ==
    /\ call = "delete_strategy"
    /\ raised = "none"
    /\ 1 \notin strategies
    /\ get_strategy_for_order(1) = 1
    /\ get_strategy_for_position(1) = 1
    /\ get_order_working_ids(None) = {1}
    /\ get_order_working_ids(1) = {}
    /\ get_position_open_ids(None) = {1}
    /\ get_position_open_ids(1) = {}

\* C38: BinanceDataClient keeps a single hourly refresh chain: at most one
\* subscribed-instruments update is scheduled by call_later or running in
\* the executor at any time.
C38_SingleRefreshChain == pending <= 1

\* C39: the subscribed-instrument set is never modified while it is being
\* iterated: while a run of _subscribed_instruments_load_and_send is in its
\* loop, no subscribe_instrument, unsubscribe_instrument or reset runs, and
\* a run that ends has scheduled one callback for exactly the symbols
\* subscribed when its loop began.
C39_NoModificationDuringIteration ==
    [][ /\ (\E i \in DOMAIN executor : executor[i].pc = "for")
               => /\ ~ BinanceDataClient_reset
                  /\ \A symbol \in Symbols : /\ ~ subscribe_instrument(symbol)
                                              /\ ~ unsubscribe_instrument(symbol)
        /\ \A i \in DOMAIN executor :
               (for_done(i) \/ for_RuntimeError(i))
                   => executor[i].sent = executor[i].start ]_vars

====
